---- MODULE Spec2Model ----
(***************************************************************************)
(* Model of ALLCools/motif/dendrogram.py: the tree built from a linkage,   *)
(* the beta-binomial scoring of edge-removal patterns, the exhaustive and  *)
(* the recursive (cut / combine) search of _max_likelihood_tree_worker,    *)
(* and the chunked process-pool driver dmr_parsimony_fit.                  *)
(*                                                                         *)
(* Numbers.  A log-likelihood of the program is a sum of logarithms of     *)
(* rationals.  It is represented exactly, as the vector of exponents e     *)
(* over the primes with value  SUM e[p] * ln(p);  adding log-likelihoods   *)
(* adds vectors and two of them are compared exactly (CmpScore).           *)
(***************************************************************************)
EXTENDS Integers, Sequences, FiniteSets, TLC

(***************************************************************************)
(* Bounds of the model.                                                    *)
(***************************************************************************)
MaxCov == 1         \* total_coverage of one sample in one region: 0..MaxCov
MaxMutation == 2    \* max_mutation argument: 0..MaxMutation
MaxCutoff == 6      \* sub_tree_cutoff argument: 0..MaxCutoff
MaxTie == 2         \* ways an unspecified tie (sort_values) is resolved
MaxChunks == 3      \* chunks of regions handed to the process pool
MaxCpu == 2         \* cpu argument: 1..MaxCpu
MaxSeed == 80       \* region rows tried by the search: rows 0..MaxSeed (see RowOfIndex)

\* The trees of the model have 2, 3 or 4 samples, that is 2, 4 or 6 edges: the
\* tree of two samples, the tree of three, and with four both the balanced
\* tree and the caterpillar.
LeafCounts == {2, 3, 4}
MaxLeaves == CHOOSE n \in LeafCounts : \A m \in LeafCounts : m <= n

(***************************************************************************)
(* Small helpers: sums, sorting of integer sets, subsets of a given size.  *)
(***************************************************************************)
\* Eager(f) is f.  TLC keeps a function written [x \in S |-> e] unevaluated and
\* computes e anew at every application; f @@ <<>> makes it tabulate f once.
Eager(f) == f @@ <<>>

RECURSIVE SumOver(_, _)
SumOver(S, f) ==
    IF S = {} THEN 0
    ELSE LET x == CHOOSE y \in S : TRUE IN f[x] + SumOver(S \ {x}, f)

Only(S) == CHOOSE x \in S : TRUE

Min(S) == CHOOSE x \in S : \A y \in S : x <= y

RECURSIVE SortAsc(_)
SortAsc(S) == IF S = {} THEN <<>> ELSE <<Min(S)>> \o SortAsc(S \ {Min(S)})

Range(s) == {s[i] : i \in 1..Len(s)}

\* first position of x in the sequence s (x occurs in s)
IndexOf(s, x) == Min({i \in 1..Len(s) : s[i] = x})

\* itertools.combinations(S, k), as a set
Combinations(S, k) == {P \in SUBSET S : Cardinality(P) = k}

(***************************************************************************)
(* Graphs.  A graph is [nodes |-> sequence of nodes in iteration order,    *)
(* edges |-> set of <<u, v>> with u < v].  networkx graphs are undirected, *)
(* so an edge is kept with its smaller end first.                          *)
(***************************************************************************)
Edge(u, v) == IF u < v THEN <<u, v>> ELSE <<v, u>>

\* append the elements of `new` that `s` lacks, in the order of `new`
RECURSIVE AppendNew(_, _)
AppendNew(s, new) ==
    IF new = <<>> THEN s
    ELSE AppendNew(IF Head(new) \in Range(s) THEN s ELSE Append(s, Head(new)),
                   Tail(new))

\* linkage_to_graph: row i of the linkage creates node i + n_leaf and the
\* edges [left, cur_node], [right, cur_node]; add_edges_from adds the nodes
\* in the order they first appear.  A linkage is a sequence of <<left, right>>
\* (the distance and n_obs columns are not read).
RECURSIVE LinkageNodes(_, _, _)
LinkageNodes(linkage, i, acc) ==
    IF i > Len(linkage) THEN acc
    ELSE LET cur_node == (i - 1) + (Len(linkage) + 1)
         IN LinkageNodes(linkage, i + 1,
                AppendNew(acc, <<linkage[i][1], cur_node, linkage[i][2], cur_node>>))

\* a linkage_to_graph that leaves out the edge [right, cur_node]
linkage_to_graph_left_edges(linkage) ==
    [nodes |-> LinkageNodes(linkage, 1, <<>>),
     edges |-> {Edge(linkage[i][1], (i - 1) + (Len(linkage) + 1)) : i \in 1..Len(linkage)}]

linkage_to_graph(linkage) ==
    LET n_leaf == Len(linkage) + 1
    IN [nodes |-> LinkageNodes(linkage, 1, <<>>),
        edges |-> UNION {{Edge(linkage[i][1], (i - 1) + n_leaf),
                          Edge(linkage[i][2], (i - 1) + n_leaf)} : i \in 1..Len(linkage)}]

Neighbors(edges, S) ==
    {e[2] : e \in {d \in edges : d[1] \in S}} \cup {e[1] : e \in {d \in edges : d[2] \in S}}

\* the nodes connected to S (breadth-first closure)
RECURSIVE Reach(_, _)
Reach(edges, S) ==
    LET T == S \cup Neighbors(edges, S) IN IF T = S THEN S ELSE Reach(edges, T)

\* G.subgraph(c).copy(): the nodes of c (a set of small integers iterates in
\* ascending order) and the edges with both ends in c
Subgraph(g, c) ==
    [nodes |-> SortAsc(c), edges |-> {e \in g.edges : e[1] \in c /\ e[2] \in c}]

\* nx.connected_components: one component per not yet seen node, in node order
RECURSIVE ComponentSeq(_, _, _, _)
ComponentSeq(nodes, edges, i, seen) ==
    IF i > Len(nodes) THEN <<>>
    ELSE IF nodes[i] \in seen THEN ComponentSeq(nodes, edges, i + 1, seen)
    ELSE LET c == Reach(edges, {nodes[i]})
         IN <<c>> \o ComponentSeq(nodes, edges, i + 1, seen \cup c)

\* nx.connected_component_subgraphs(g) after remove_edges_from(removed)
connected_component_subgraphs(g, removed) ==
    LET cs == ComponentSeq(g.nodes, g.edges \ removed, 1, {})
    IN [i \in 1..Len(cs) |-> Subgraph(g, cs[i])]

\* edge_betweenness_centrality of an edge: the node pairs whose shortest path
\* uses the edge (in a tree: the pairs the edge separates); networkx divides
\* every edge's count by the same n(n-1)/2, which does not change the ranking
EdgeBetweenness(g, e) ==
    LET side == Reach(g.edges \ {e}, {e[1]})
    IN Cardinality({pr \in Range(g.nodes) \X Range(g.nodes) :
                       pr[1] < pr[2] /\ ((pr[1] \in side) # (pr[2] \in side))})

\* a total order on the edges of the model, used to list tied candidates
NodeBase == 2 * MaxLeaves
EdgeKey(e) == e[1] * NodeBase + e[2]
EdgeOfKey(k) == <<k \div NodeBase, k % NodeBase>>
SortEdges(E) == LET ks == SortAsc({EdgeKey(e) : e \in E})
                IN [i \in 1..Len(ks) |-> EdgeOfKey(ks[i])]

\* sort_values(ascending=False) ... [0]: one of the maximal entries; which one
\* of several equal entries comes first is not specified by the sort, so the
\* model takes the (tie mod count)-th of them
PickTied(cands, tie) == cands[(tie % Len(cands)) + 1]

\* cut_by_highest_betweenness_centrality
cut_by_highest_betweenness_centrality(g, tie) ==
    LET best == {e \in g.edges :
                    \A d \in g.edges : EdgeBetweenness(g, d) <= EdgeBetweenness(g, e)}
        highest_centrality_edge == PickTied(SortEdges(best), tie)
        parts == connected_component_subgraphs(g, {highest_centrality_edge})
    IN [left_tree |-> parts[1], right_tree |-> parts[2],
        removed_edge |-> highest_centrality_edge]

(***************************************************************************)
(* Log-likelihoods.  Score == [Primes -> Int]; the value of s is           *)
(* SUM s[p] * ln(p).                                                       *)
(***************************************************************************)
\* the cells <<methylated_count, total_coverage>> of one sample in one region
Cells == {c \in (0..MaxCov) \X (0..MaxCov) : c[1] <= c[2]}

\* the largest argument of a factorial below: pooled counts of all leaves
\* plus one more sample's coverage
MaxFactor == MaxLeaves * MaxCov + MaxCov
IsPrime(n) == n >= 2 /\ \A d \in 2..(n - 1) : n % d # 0
Primes == {n \in 2..(IF MaxFactor < 5 THEN 5 ELSE MaxFactor) : IsPrime(n)}

ZeroScore == Eager([p \in Primes |-> 0])
AddScore(s, t) == Eager([p \in Primes |-> s[p] + t[p]])
SubScore(s, t) == Eager([p \in Primes |-> s[p] - t[p]])
ScaleScore(k, s) == Eager([p \in Primes |-> k * s[p]])

RECURSIVE Multiplicity(_, _)
Multiplicity(n, p) == IF n % p = 0 THEN 1 + Multiplicity(n \div p, p) ELSE 0

\* ln(n) for an integer n >= 1 whose prime factors are in Primes
LnNat(n) == Eager([p \in Primes |-> Multiplicity(n, p)])

\* ln(n!), for n up to the argument MaxFactor + MaxCov of the largest betaln below
RECURSIVE LnFactorialRec(_)
LnFactorialRec(n) == IF n <= 1 THEN ZeroScore ELSE AddScore(LnNat(n), LnFactorialRec(n - 1))
LnFactorialTable == Eager([n \in 0..MaxFactor |-> LnFactorialRec(n)])
LnFactorial(n) == LnFactorialTable[n]

RECURSIVE SumScores(_, _)
SumScores(S, f) ==
    IF S = {} THEN ZeroScore
    ELSE LET x == CHOOSE y \in S : TRUE IN AddScore(f[x], SumScores(S \ {x}, f))

\* Exact comparison of two values: with d = s - t, compare the product of the
\* primes of positive exponent with that of the primes of negative exponent.
\* The products are naturals in base BigBase (least significant limb first).
BigBase == 10 ^ 4

RECURSIVE BigTimes(_, _, _)
BigTimes(b, m, carry) ==
    IF b = <<>>
    THEN IF carry = 0 THEN <<>>
         ELSE <<carry % BigBase>> \o BigTimes(<<>>, m, carry \div BigBase)
    ELSE LET v == Head(b) * m + carry
         IN <<v % BigBase>> \o BigTimes(Tail(b), m, v \div BigBase)

RECURSIVE BigPower(_, _, _)
BigPower(b, p, k) == IF k = 0 THEN b ELSE BigPower(BigTimes(b, p, 0), p, k - 1)

RECURSIVE BigProduct(_, _, _)
BigProduct(b, ps, e) ==
    IF ps = {} THEN b
    ELSE LET p == CHOOSE q \in ps : TRUE
         IN BigProduct(BigPower(b, p, e[p]), ps \ {p}, e)

\* -1, 0, 1 as a < b, a = b, a > b
RECURSIVE BigCmpLimbs(_, _, _)
BigCmpLimbs(a, b, i) ==
    IF i = 0 THEN 0
    ELSE IF a[i] < b[i] THEN -1
    ELSE IF a[i] > b[i] THEN 1
    ELSE BigCmpLimbs(a, b, i - 1)

BigCmp(a, b) ==
    IF Len(a) < Len(b) THEN -1
    ELSE IF Len(a) > Len(b) THEN 1
    ELSE BigCmpLimbs(a, b, Len(a))

\* -1, 0, 1 as the value of s is below, equal to, above the value of t
CmpScore(s, t) ==
    IF s = t THEN 0
    ELSE LET pos == [p \in Primes |-> IF s[p] > t[p] THEN s[p] - t[p] ELSE 0]
             neg == [p \in Primes |-> IF t[p] > s[p] THEN t[p] - s[p] ELSE 0]
         IN BigCmp(BigProduct(<<1>>, Primes, pos), BigProduct(<<1>>, Primes, neg))

ScoreLeq(s, t) == CmpScore(s, t) <= 0

\* scipy.special.betaln(a, b) = ln((a-1)! (b-1)! / (a+b-1)!) for integers a, b >= 1
betaln(a, b) ==
    SubScore(AddScore(LnFactorial(a - 1), LnFactorial(b - 1)), LnFactorial(a + b - 1))

\* log_proba_beta_binomial, one cell.  betaln is +inf when an argument is 0.
\* a and b are the pooled counts of the group the cell's sample belongs to, so
\* 0 <= x <= a and 0 <= n - x <= b: a = 0 makes a + x = 0 and b = 0 makes
\* b + n - x = 0, both terms are infinite, the difference is nan and
\* fillna(0) makes it 0.
BetaBinomialLogProba(x, n, a, b) ==
    IF a = 0 \/ b = 0 THEN ZeroScore
    ELSE SubScore(betaln(a + x, b + n - x), betaln(a, b))

\* the same, tabulated over the cells and the pooled counts of the model
LogProbaTable ==
    Eager([q \in {t \in Cells \X (0..(MaxLeaves * MaxCov)) \X (0..(MaxLeaves * MaxCov)) :
                    /\ t[1][1] <= t[2] /\ t[1][2] - t[1][1] <= t[3]
                    /\ t[2] + t[3] <= MaxLeaves * MaxCov} |->
              BetaBinomialLogProba(q[1][1], q[1][2], q[2], q[3])])
log_proba_beta_binomial(x, n, a, b) == LogProbaTable[<<<<x, n>>, a, b>>]

\* mutation_likelihood: n_mutation * log(p) + (n_edges - n_mutation) * log(1 - p),
\* for the rational p_mutation = p[1] / p[2]
mutation_likelihood(n_mutation, p_mutation, n_edges) ==
    AddScore(ScaleScore(n_mutation, SubScore(LnNat(p_mutation[1]), LnNat(p_mutation[2]))),
             ScaleScore(n_edges - n_mutation,
                        SubScore(LnNat(p_mutation[2] - p_mutation[1]), LnNat(p_mutation[2]))))

(***************************************************************************)
(* Tables.  A DataFrame is [index |-> sequence of record names,            *)
(* columns |-> set of sample labels, at |-> [name -> [column -> count]]].  *)
(* A pattern is a set of edges.                                            *)
(***************************************************************************)
RestrictColumns(df, nodes) ==
    LET cols == df.columns \cap nodes
    IN [index |-> df.index, columns |-> cols,
        at |-> [r \in Range(df.index) |-> [c \in cols |-> df.at[r][c]]]]

\* a pooling whose sum reads every column of the table, not those of judge
PoolColumnsOfAll(at, judge) ==
    Eager([r \in DOMAIN at |->
        LET pooled == SumOver(DOMAIN at[r], at[r])
        IN Eager([c \in DOMAIN at[r] |-> IF c \in judge THEN pooled ELSE at[r][c]])])

\* df.loc[:, judge] = df.loc[:, judge].sum(axis=1).values[:, None]
PoolColumns(at, judge) ==
    Eager([r \in DOMAIN at |->
        LET pooled == SumOver(judge, at[r])
        IN Eager([c \in DOMAIN at[r] |-> IF c \in judge THEN pooled ELSE at[r][c]])])

\* the loop of parse_one_pattern over the disconnected sub-graphs, in order;
\* each pass reads the tables the earlier passes have written
RECURSIVE PoolLoop(_, _, _, _, _)
PoolLoop(sub_tree, i, columns, group_mc, group_un_mc) ==
    IF i > Len(sub_tree) THEN [a |-> group_mc, b |-> group_un_mc]
    ELSE LET judge == columns \cap Range(sub_tree[i].nodes)
         IN IF judge = {}
            THEN PoolLoop(sub_tree, i + 1, columns, group_mc, group_un_mc)
            ELSE PoolLoop(sub_tree, i + 1, columns,
                          PoolColumns(group_mc, judge), PoolColumns(group_un_mc, judge))

\* parse_one_pattern: a and b of the beta-binomial for every cell
parse_one_pattern(tree_g, edges_to_remove, mc_df, cov_df) ==
    LET group_mc_df == mc_df.at
        group_un_mc_df == Eager([r \in Range(mc_df.index) |->
                              Eager([c \in mc_df.columns |-> cov_df.at[r][c] - mc_df.at[r][c]])])
        sub_tree == connected_component_subgraphs(tree_g, edges_to_remove)
    IN PoolLoop(sub_tree, 1, mc_df.columns, group_mc_df, group_un_mc_df)

\* the likelihood of every record under a pattern:
\* log_proba_beta_binomial(mc_df, cov_df, a, b).sum(axis=1) plus the prior lp0
PatternLikelihood(tree_g, pattern, mc_df, cov_df, p_mutation) ==
    LET g == parse_one_pattern(tree_g, pattern, mc_df, cov_df)
        lp0 == mutation_likelihood(Cardinality(pattern), p_mutation,
                                   Cardinality(tree_g.edges))
    IN Eager([r \in Range(mc_df.index) |->
           AddScore(SumScores(mc_df.columns,
                              [c \in mc_df.columns |->
                                  log_proba_beta_binomial(mc_df.at[r][c], cov_df.at[r][c],
                                                          g.a[r][c], g.b[r][c])]),
                    lp0)])

\* a total order on the patterns of a tree, used to list tied candidates:
\* the pattern's edges as bits, by their place in the sorted edge list es
PatternRank(es, pattern) ==
    SumOver(pattern, [e \in pattern |-> 2 ^ (IndexOf(es, e) - 1)])

RECURSIVE MaxScore(_, _)
MaxScore(S, best) ==
    IF S = {} THEN best
    ELSE LET x == CHOOSE y \in S : TRUE
         IN MaxScore(S \ {x}, IF CmpScore(x, best) > 0 THEN x ELSE best)

\* the maximal elements of a set of patterns under the scores `lik`, listed by rank
TiedBest(tree_g, cands, lik) ==
    LET scores == {lik[P] : P \in cands}
        top == MaxScore(scores, CHOOSE x \in scores : TRUE)
        best == {P \in cands : lik[P] = top}
        es == SortEdges(tree_g.edges)
        rank == Eager([P \in best |-> PatternRank(es, P)])
        ranks == SortAsc({rank[P] : P \in best})
    IN [i \in 1..Len(ranks) |-> CHOOSE P \in best : rank[P] = ranks[i]]

\* what a worker returns: two Series over the record names, or an exception
Raised == [ok |-> FALSE, index |-> <<>>, patterns |-> <<>>, likelihoods |-> <<>>]
Returned(index, patterns, likelihoods) ==
    [ok |-> TRUE, index |-> index, patterns |-> Eager(patterns),
     likelihoods |-> Eager(likelihoods)]

(***************************************************************************)
(* _max_likelihood_tree_worker, the else branch: every combination of      *)
(* 1..max_mutation edges is scored; per record and per n_mutation the      *)
(* top_n = 1 pattern is kept, in ascending order of n_mutation.            *)
(* records is empty when max_mutation = 0: records_df then has no row and  *)
(* the two returned Series are empty.                                      *)
(***************************************************************************)
ExhaustiveSearch(tree_g, mc_df, cov_df, max_mutation, p_mutation, tie) ==
    IF max_mutation = 0 THEN Returned(<<>>, <<>>, <<>>)
    ELSE
    LET cands == UNION {Combinations(tree_g.edges, k) : k \in 1..max_mutation}
        records == Eager([P \in cands |->
                            PatternLikelihood(tree_g, P, mc_df, cov_df, p_mutation)])
        row_best == Eager([r \in Range(mc_df.index) |->
                        Eager([k \in 1..max_mutation |->
                            PickTied(TiedBest(tree_g, Combinations(tree_g.edges, k),
                                              [P \in cands |-> records[P][r]]), tie)])])
    IN Returned(mc_df.index,
                [r \in Range(mc_df.index) |-> row_best[r]],
                [r \in Range(mc_df.index) |->
                    Eager([k \in 1..max_mutation |-> records[row_best[r][k]][r]])])

(***************************************************************************)
(* _max_likelihood_tree_worker, the if branch after the two recursive      *)
(* calls: per record, every left pattern (plus the empty one) is joined    *)
(* with every right pattern (plus the empty one) and with the removed edge *)
(* or without it.                                                          *)
(***************************************************************************)
\* joint patterns without the check of their length
RECURSIVE JointPatternsOfAnyLength(_, _, _, _, _)
JointPatternsOfAnyLength(left_patterns, right_patterns, middle_patterns, max_mutation, i) ==
    LET nr == Len(right_patterns)
        nm == Len(middle_patterns)
    IN IF i >= Len(left_patterns) * nr * nm THEN <<>>
       ELSE <<left_patterns[(i \div (nr * nm)) + 1]
              \cup right_patterns[((i \div nm) % nr) + 1]
              \cup middle_patterns[(i % nm) + 1]>>
            \o JointPatternsOfAnyLength(left_patterns, right_patterns, middle_patterns,
                                        max_mutation, i + 1)

\* the joint patterns in the order of the three nested loops, those longer
\* than max_mutation skipped
RECURSIVE JointPatterns(_, _, _, _, _)
JointPatterns(left_patterns, right_patterns, middle_patterns, max_mutation, i) ==
    LET nr == Len(right_patterns)
        nm == Len(middle_patterns)
    IN IF i >= Len(left_patterns) * nr * nm THEN <<>>
       ELSE LET joint_pattern == left_patterns[(i \div (nr * nm)) + 1]
                                 \cup right_patterns[((i \div nm) % nr) + 1]
                                 \cup middle_patterns[(i % nm) + 1]
                rest == JointPatterns(left_patterns, right_patterns, middle_patterns,
                                      max_mutation, i + 1)
            IN IF Cardinality(joint_pattern) > max_mutation THEN rest
               ELSE <<joint_pattern>> \o rest

\* the keys of pattern_dict in insertion order: the pattern sizes in the order
\* the joint patterns first reach them
RECURSIVE FirstSizes(_, _, _)
FirstSizes(joints, i, acc) ==
    IF i > Len(joints) THEN acc
    ELSE FirstSizes(joints, i + 1, AppendNew(acc, <<Cardinality(joints[i])>>))

\* one record of the combine step: [patterns, likelihoods], one entry per key
\* of pattern_dict; the top_n = 1 pattern of a size, the empty pattern for 0
CombineRecord(tree_g, mc_df, cov_df, max_mutation, p_mutation, tie, left_best, right_best, removed_edge, r) ==
    LET left_patterns == left_best \o <<{}>>
        right_patterns == right_best \o <<{}>>
        middle_patterns == <<{removed_edge}, {}>>
        joints == JointPatterns(left_patterns, right_patterns, middle_patterns,
                                max_mutation, 0)
        this_mc_df == [index |-> <<r>>, columns |-> mc_df.columns, at |-> [x \in {r} |-> mc_df.at[r]]]
        this_cov_df == [index |-> <<r>>, columns |-> cov_df.columns, at |-> [x \in {r} |-> cov_df.at[r]]]
        lik == Eager([P \in Range(joints) |->
                   PatternLikelihood(tree_g, P, this_mc_df, this_cov_df, p_mutation)[r]])
        sizes == FirstSizes(joints, 1, <<>>)
        best == Eager([j \in 1..Len(sizes) |->
                    IF sizes[j] = 0 THEN {}
                    ELSE PickTied(TiedBest(tree_g,
                                           {P \in Range(joints) : Cardinality(P) = sizes[j]},
                                           lik), tie)])
    IN [patterns |-> best,
        likelihoods |-> Eager([j \in 1..Len(sizes) |-> lik[best[j]]])]

\* lines 154-204: the combine step over all records.  left_best_patterns[record_name]
\* raises KeyError when a recursive call returned a Series without the record
\* (an empty Series).
CombineStep(tree_g, mc_df, cov_df, max_mutation, p_mutation, tie, cut, left, right) ==
    LET rec == Eager([r \in Range(mc_df.index) |->
                   CombineRecord(tree_g, mc_df, cov_df, max_mutation, p_mutation,
                                 tie, left.patterns[r], right.patterns[r],
                                 cut.removed_edge, r)])
    IN IF \E r \in Range(mc_df.index) :
             r \notin Range(left.index) \/ r \notin Range(right.index)
       THEN Raised
       ELSE Returned(mc_df.index,
                     [r \in Range(mc_df.index) |-> rec[r].patterns],
                     [r \in Range(mc_df.index) |-> rec[r].likelihoods])

\* max_mutation = min(n_edges, max_mutation)
Budget(tree_g, max_mutation_arg) ==
    IF Cardinality(tree_g.edges) < max_mutation_arg THEN Cardinality(tree_g.edges)
    ELSE max_mutation_arg

\* _max_likelihood_tree_worker
RECURSIVE max_likelihood_tree_worker(_, _, _, _, _, _, _)
max_likelihood_tree_worker(tree_g, mc_df, cov_df, max_mutation_arg, p_mutation, sub_tree_cutoff, tie) ==
    LET n_edges == Cardinality(tree_g.edges)
        max_mutation == Budget(tree_g, max_mutation_arg)
    IN IF n_edges > sub_tree_cutoff
       THEN LET cut == cut_by_highest_betweenness_centrality(tree_g, tie)
                left == max_likelihood_tree_worker(
                            cut.left_tree,
                            RestrictColumns(mc_df, Range(cut.left_tree.nodes)),
                            RestrictColumns(cov_df, Range(cut.left_tree.nodes)),
                            max_mutation, p_mutation, sub_tree_cutoff, tie)
                right == max_likelihood_tree_worker(
                            cut.right_tree,
                            RestrictColumns(mc_df, Range(cut.right_tree.nodes)),
                            RestrictColumns(cov_df, Range(cut.right_tree.nodes)),
                            max_mutation, p_mutation, sub_tree_cutoff, tie)
            IN IF ~left.ok THEN Raised
               ELSE IF ~right.ok THEN Raised
               ELSE CombineStep(tree_g, mc_df, cov_df, max_mutation, p_mutation, tie,
                                cut, left, right)
       ELSE ExhaustiveSearch(tree_g, mc_df, cov_df, max_mutation, p_mutation, tie)

(***************************************************************************)
(* Inputs.                                                                 *)
(***************************************************************************)
\* Linkages of n leaves, up to renaming of the samples: every row joins two
\* clusters not joined before (ids below n are samples, n + i is the cluster
\* of row i), left < right, and the samples are numbered in the order the
\* rows first use them.
RECURSIVE LinkagesFrom(_, _, _, _)
LinkagesFrom(n, rows, avail, next_leaf) ==
    IF Len(rows) = n - 1 THEN {rows}
    ELSE UNION {LinkagesFrom(n, Append(rows, pr),
                             (avail \ {pr[1], pr[2]}) \cup {n + Len(rows)},
                             next_leaf + Cardinality({pr[1], pr[2]} \cap (0..(n - 1)))) :
                pr \in {q \in avail \X avail :
                          /\ q[1] < q[2]
                          /\ q[1] < n => q[1] = next_leaf
                          /\ q[2] < n => q[2] = next_leaf + 1}}

Linkages(n) == LinkagesFrom(n, <<>>, 0..(n - 1), 0)

CellSeq == LET ks == SortAsc({c[2] * (MaxCov + 1) + c[1] : c \in Cells})
           IN [i \in 1..Len(ks) |-> <<ks[i] % (MaxCov + 1), ks[i] \div (MaxCov + 1)>>]

\* the j-th row of n samples: the digits of j in base Len(CellSeq) pick the cells
RowOfIndex(j, n) ==
    [c \in 0..(n - 1) |-> CellSeq[((j \div (Len(CellSeq) ^ c)) % Len(CellSeq)) + 1]]

\* the pair mc_df, cov_df of a list of rows, the records named 0, 1, ...
Tables(rows, n) ==
    [mc |-> [index |-> [i \in 1..Len(rows) |-> i - 1], columns |-> 0..(n - 1),
             at |-> [r \in 0..(Len(rows) - 1) |-> [c \in 0..(n - 1) |-> rows[r + 1][c][1]]]],
     cov |-> [index |-> [i \in 1..Len(rows) |-> i - 1], columns |-> 0..(n - 1),
              at |-> [r \in 0..(Len(rows) - 1) |-> [c \in 0..(n - 1) |-> rows[r + 1][c][2]]]]]

\* a region table: region i carries row seed + i of the cyclic list of all rows
RegionTable(n_regions, n, seed) ==
    Tables([i \in 1..n_regions |-> RowOfIndex((seed + i - 1) % (Len(CellSeq) ^ n), n)], n)

\* p_mutation as <<numerator, denominator>>: the default 0.1
DefaultPMutation == <<1, 10>>

(***************************************************************************)
(* State.                                                                  *)
(***************************************************************************)
VARIABLES
    linkage, mc_df, cov_df,     \* the arguments of the call
    max_mutation, p_mutation, sub_tree_cutoff, cpu,
    tie,                        \* how this run's sorts order equal values
    pc,                         \* where the call is
    chunk_start,                \* the loop variable of the submit loop
    futures,                    \* the submitted futures, by order of submission
    pool_broken,                \* a worker process died (BrokenProcessPool)
    yielded,                    \* the futures as_completed has handed out, in order
    results_dict,               \* results_dict: chunk_start -> result
    total_records,              \* the DataFrame total_records
    returned,                   \* what dmr_parsimony_fit returned
    stack, ret,                 \* call stack and return value of one search
    parsed                      \* the outcome of one parse_one_pattern

inputs == <<linkage, mc_df, cov_df, max_mutation, p_mutation, sub_tree_cutoff, cpu, tie>>
driver == <<pc, chunk_start, futures, pool_broken, yielded, results_dict,
            total_records, returned>>
search == <<stack, ret>>
vars == <<inputs, driver, search, parsed>>

tree_g == linkage_to_graph(linkage)
n_records == Len(mc_df.index)

\* chunk_size = int(min(mc_df.shape[0], 10))
ChunkCap == 10
chunk_size == IF n_records < ChunkCap THEN n_records ELSE ChunkCap

\* df.iloc[start:start + chunk_size, :].copy()
Chunk(df, start) ==
    LET last == IF start + chunk_size < Len(df.index) THEN start + chunk_size
                ELSE Len(df.index)
        idx == SubSeq(df.index, start + 1, last)
    IN [index |-> idx, columns |-> df.columns, at |-> Eager([r \in Range(idx) |-> df.at[r]])]

\* range(0, mc_df.shape[0], chunk_size), for chunk_size > 0
ChunkStarts == {c \in 0..(n_records - 1) : c % chunk_size = 0}

\* What the task given the chunk at `start` computes.  A task's Series are a
\* function of its arguments, so the state keeps, for a finished future, the
\* chunk its task was given and whether it raised; the Series are this value.
\* (The arguments are bound to their values once, by the quantifier.)
WorkerOutcome(start) ==
    Only({max_likelihood_tree_worker(a.tree_g, a.mc_df, a.cov_df, a.max_mutation,
                                     a.p_mutation, a.sub_tree_cutoff, a.tie) :
          a \in {[tree_g |-> tree_g, mc_df |-> Chunk(mc_df, start),
                  cov_df |-> Chunk(cov_df, start), max_mutation |-> max_mutation,
                  p_mutation |-> p_mutation, sub_tree_cutoff |-> sub_tree_cutoff,
                  tie |-> tie]}})

NoRecords == [index |-> <<>>, mutation |-> <<>>, likelihoods |-> <<>>]
NoResult == [index |-> <<>>, best_choice |-> <<>>, best_likelihood |-> <<>>]
NoParse == [edges |-> {}, sub_trees |-> <<>>, a |-> <<>>, b |-> <<>>]

\* the sizes of the region table: none, fewer than a chunk, a full chunk, and
\* one region more than 1, 2, ... full chunks
RegionCounts == {0, 1, ChunkCap} \cup {k * ChunkCap + 1 : k \in 1..(MaxChunks - 1)}

InitInputs(region_counts, seeds, cpus) ==
    /\ \E n \in LeafCounts, m \in region_counts, seed \in seeds :
          /\ linkage \in Linkages(n)
          /\ mc_df = RegionTable(m, n, seed).mc
          /\ cov_df = RegionTable(m, n, seed).cov
    /\ max_mutation \in 0..MaxMutation
    /\ p_mutation = DefaultPMutation
    /\ sub_tree_cutoff \in 0..MaxCutoff
    /\ cpu \in cpus
    /\ tie \in 0..(MaxTie - 1)

InitDriver ==
    /\ chunk_start = 0
    /\ futures = <<>>
    /\ pool_broken = FALSE
    /\ yielded = <<>>
    /\ results_dict = <<>>
    /\ total_records = NoRecords
    /\ returned = NoResult

Init ==
    /\ InitInputs(RegionCounts, {0}, 1..MaxCpu)
    /\ pc = "submit"
    /\ InitDriver
    /\ stack = <<>>
    /\ ret = Raised
    /\ parsed = NoParse

(***************************************************************************)
(* dmr_parsimony_fit.                                                      *)
(***************************************************************************)
Pending == {f \in DOMAIN futures : futures[f].state = "pending"}
Running == {f \in DOMAIN futures : futures[f].state = "running"}

\* One pass of the submit loop inside the with block: the task gets the chunk
\* at chunk_start and futures[future] = chunk_start.  range() raises ValueError
\* for a step of 0 (an empty region table), submit raises on a broken pool;
\* the end of the loop leaves the with block.
Submit ==
    /\ pc = "submit"
    /\ IF chunk_size = 0 \/ (chunk_start < n_records /\ pool_broken)
       THEN pc' = "raised" /\ UNCHANGED <<chunk_start, futures>>
       ELSE IF chunk_start < n_records
       THEN /\ futures' = Append(futures, [state |-> "pending", ok |-> FALSE, runs |-> 0,
                                            task |-> chunk_start,
                                            chunk_start |-> chunk_start])
            /\ chunk_start' = chunk_start + chunk_size
            /\ pc' = pc
       ELSE pc' = "shutdown" /\ UNCHANGED <<chunk_start, futures>>
    /\ UNCHANGED <<inputs, pool_broken, yielded, results_dict, total_records, returned,
                   search, parsed>>

\* a free worker process takes the oldest queued task
WorkerStart ==
    /\ Pending # {}
    /\ Cardinality(Running) < cpu
    /\ futures' = [futures EXCEPT ![Min(Pending)].state = "running",
                                  ![Min(Pending)].runs = @ + 1]
    /\ UNCHANGED <<inputs, pc, chunk_start, pool_broken, yielded, results_dict,
                   total_records, returned, search, parsed>>

\* a task ends: _max_likelihood_tree_worker returned or raised
WorkerFinish ==
    /\ \E f \in Running :
          futures' = [futures EXCEPT ![f].state = "done",
                                     ![f].ok = WorkerOutcome(futures[f].task).ok]
    /\ UNCHANGED <<inputs, pc, chunk_start, pool_broken, yielded, results_dict,
                   total_records, returned, search, parsed>>

\* a worker process dies: the pool is broken and every unfinished future ends
\* with BrokenProcessPool
WorkerDies ==
    /\ Running # {}
    /\ futures' = [f \in DOMAIN futures |->
                      IF futures[f].state = "done" THEN futures[f]
                      ELSE [futures[f] EXCEPT !.state = "done", !.ok = FALSE]]
    /\ pool_broken' = TRUE
    /\ UNCHANGED <<inputs, pc, chunk_start, yielded, results_dict, total_records,
                   returned, search, parsed>>

\* the with block ends when shutdown(wait=True) returns: every task has ended
PoolShutDown == \A f \in DOMAIN futures : futures[f].state = "done"

ExitWith ==
    /\ pc = "shutdown"
    /\ PoolShutDown
    /\ pc' = "collect"
    /\ UNCHANGED <<inputs, chunk_start, futures, pool_broken, yielded, results_dict,
                   total_records, returned, search, parsed>>

\* a result() that hands out a failed task's result like any other
ResultNeverRaises(f) == FALSE

\* future.result() raises what the task raised
ResultRaises(f) == ~futures[f].ok

\* one pass of the as_completed loop: the finished futures come in no
\* particular order; results_dict[futures[future]] = future.result()
Collect ==
    /\ pc = "collect"
    /\ \E f \in DOMAIN futures \ Range(yielded) :
          /\ futures[f].state = "done"
          /\ yielded' = Append(yielded, f)
          /\ IF ResultRaises(f)
             THEN pc' = "raised" /\ UNCHANGED results_dict
             ELSE /\ results_dict' = results_dict @@
                                     (futures[f].chunk_start :> [task |-> futures[f].task])
                  /\ pc' = pc
    /\ UNCHANGED <<inputs, chunk_start, futures, pool_broken, total_records, returned,
                   search, parsed>>

\* numpy argmax: the first position (from 0) of a maximal entry
ArgMax(likelihoods) ==
    Min({i \in 1..Len(likelihoods) :
            \A j \in 1..Len(likelihoods) : ScoreLeq(likelihoods[j], likelihoods[i])}) - 1

\* the second loop over range(0, mc_df.shape[0], chunk_size): ascending offsets
ReduceOrder == SortAsc(ChunkStarts)

\* pd.concat of the chunk results in the given order
RECURSIVE ConcatIndex(_, _)
ConcatIndex(results, i) ==
    IF i > Len(results) THEN <<>> ELSE results[i].index \o ConcatIndex(results, i + 1)

ConcatRecords(results) ==
    LET chunk_of == Eager([r \in UNION {Range(results[i].index) : i \in 1..Len(results)} |->
                              CHOOSE i \in 1..Len(results) : r \in Range(results[i].index)])
    IN [index |-> ConcatIndex(results, 1),
        mutation |-> Eager([r \in DOMAIN chunk_of |-> results[chunk_of[r]].patterns[r]]),
        likelihoods |-> Eager([r \in DOMAIN chunk_of |-> results[chunk_of[r]].likelihoods[r]])]

\* lines 276-286: the chunk results in the order of ReduceOrder, pd.concat into
\* total_records, then best_choice and best_likelihood
Reduce ==
    /\ pc = "collect"
    /\ Len(yielded) = Len(futures)
    /\ \E records \in {ConcatRecords(Eager([i \in 1..Len(ReduceOrder) |->
                           WorkerOutcome(results_dict[ReduceOrder[i]].task)]))} :
          /\ total_records' = records
          /\ returned' =
                [index |-> records.index,
                 best_choice |-> Eager([r \in Range(records.index) |->
                     records.mutation[r][ArgMax(records.likelihoods[r]) + 1]]),
                 best_likelihood |-> Eager([r \in Range(records.index) |->
                     ArgMax(records.likelihoods[r])])]
    /\ pc' = "done"
    /\ UNCHANGED <<inputs, chunk_start, futures, pool_broken, yielded, results_dict,
                   search, parsed>>

Next == Submit \/ WorkerStart \/ WorkerFinish \/ WorkerDies \/ ExitWith \/ Collect \/ Reduce

Spec == Init /\ [][Next]_vars

(***************************************************************************)
(* One call of _max_likelihood_tree_worker on a table of one region, step  *)
(* by step: `stack` holds the active calls, the innermost last.  A frame   *)
(* is at "start" (nothing done), "left" (inside the first recursive call), *)
(* "left_done", "right" (inside the second) or "combine".                  *)
(***************************************************************************)
NoCut == [left_tree |-> [nodes |-> <<>>, edges |-> {}],
          right_tree |-> [nodes |-> <<>>, edges |-> {}], removed_edge |-> <<>>]

Frame(g, mc, cov, mm) ==
    [tree_g |-> g, mc_df |-> mc, cov_df |-> cov, max_mutation |-> mm, at |-> "start",
     cut |-> NoCut, left |-> Raised, right |-> Raised]

Top == stack[Len(stack)]

InitSearch ==
    /\ InitInputs({1}, 0..MaxSeed, {1})
    /\ pc = "search"
    /\ InitDriver
    /\ stack = <<Frame(tree_g, mc_df, cov_df, max_mutation)>>
    /\ ret = Raised
    /\ parsed = NoParse

\* the innermost call ends with `result`: an exception unwinds every caller
\* (no frame catches it), a value goes to the caller's left or right result,
\* or is the value of the outermost call
Deliver(result) ==
    IF ~result.ok
    THEN pc' = "raised" /\ stack' = <<>> /\ ret' = Raised
    ELSE IF Len(stack) = 1
    THEN pc' = "returned" /\ stack' = <<>> /\ ret' = result
    ELSE /\ stack' = [SubSeq(stack, 1, Len(stack) - 1) EXCEPT
                         ![Len(stack) - 1] =
                             IF @.at = "left"
                             THEN [@ EXCEPT !.left = result, !.at = "left_done"]
                             ELSE [@ EXCEPT !.right = result, !.at = "combine"]]
         /\ UNCHANGED <<pc, ret>>

\* lines 139-148: n_edges > sub_tree_cutoff; the tree is cut and the left
\* part is searched with the budget min(n_edges, max_mutation)
Split ==
    /\ pc = "search"
    /\ Top.at = "start"
    /\ Cardinality(Top.tree_g.edges) > sub_tree_cutoff
    /\ \E f \in {Top} : \E cut \in {cut_by_highest_betweenness_centrality(f.tree_g, tie)} :
          stack' = [stack EXCEPT ![Len(stack)] = [f EXCEPT !.at = "left", !.cut = cut]]
                   \o <<Frame(cut.left_tree,
                              RestrictColumns(f.mc_df, Range(cut.left_tree.nodes)),
                              RestrictColumns(f.cov_df, Range(cut.left_tree.nodes)),
                              Budget(f.tree_g, f.max_mutation))>>
    /\ UNCHANGED <<inputs, driver, ret, parsed>>

\* lines 149-152: the right part is searched
CallRight ==
    /\ pc = "search"
    /\ Top.at = "left_done"
    /\ \E f \in {Top} :
          stack' = [stack EXCEPT ![Len(stack)] = [f EXCEPT !.at = "right"]]
                   \o <<Frame(f.cut.right_tree,
                              RestrictColumns(f.mc_df, Range(f.cut.right_tree.nodes)),
                              RestrictColumns(f.cov_df, Range(f.cut.right_tree.nodes)),
                              Budget(f.tree_g, f.max_mutation))>>
    /\ UNCHANGED <<inputs, driver, ret, parsed>>

\* lines 154-204: the combine step and the return of the two Series
Combine ==
    /\ pc = "search"
    /\ Top.at = "combine"
    /\ \E f \in {Top} :
          \E result \in {CombineStep(f.tree_g, f.mc_df, f.cov_df,
                                     Budget(f.tree_g, f.max_mutation), p_mutation, tie,
                                     f.cut, f.left, f.right)} :
             Deliver(result)
    /\ UNCHANGED <<inputs, chunk_start, futures, pool_broken, yielded, results_dict,
                   total_records, returned, parsed>>

\* lines 205-249: n_edges <= sub_tree_cutoff, the exhaustive search
Exhaust ==
    /\ pc = "search"
    /\ Top.at = "start"
    /\ Cardinality(Top.tree_g.edges) <= sub_tree_cutoff
    /\ \E f \in {Top} :
          \E result \in {ExhaustiveSearch(f.tree_g, f.mc_df, f.cov_df,
                                          Budget(f.tree_g, f.max_mutation), p_mutation, tie)} :
             Deliver(result)
    /\ UNCHANGED <<inputs, chunk_start, futures, pool_broken, yielded, results_dict,
                   total_records, returned, parsed>>

NextSearch == Split \/ CallRight \/ Combine \/ Exhaust

SpecSearch == InitSearch /\ [][NextSearch]_vars

(***************************************************************************)
(* One call of parse_one_pattern, or of the partitioner, on a tree and a   *)
(* table of two regions.  `parsed` keeps what the call returned and the    *)
(* arguments as they are after it.                                         *)
(***************************************************************************)
InitParse ==
    /\ \E n \in LeafCounts, seed \in 0..MaxSeed :
          /\ linkage \in Linkages(n)
          /\ mc_df = RegionTable(2, n, seed).mc
          /\ cov_df = RegionTable(2, n, seed).cov
    /\ max_mutation = MaxMutation
    /\ p_mutation = DefaultPMutation
    /\ sub_tree_cutoff = MaxCutoff
    /\ cpu = 1
    /\ tie \in 0..(MaxTie - 1)
    /\ pc = "parse"
    /\ InitDriver
    /\ stack = <<>>
    /\ ret = Raised
    /\ parsed = NoParse

\* parse_one_pattern(tree_g, edges_to_remove, mc_df, cov_df): group_mc_df is a
\* copy of mc_df, group_un_mc_df a new table, sub_g a copy of tree_g, so the
\* writes of the loop reach none of the arguments
ParseOne ==
    /\ pc = "parse"
    /\ \E edges_to_remove \in SUBSET tree_g.edges :
          \E g \in {tree_g} :
             \E res \in {parse_one_pattern(g, edges_to_remove, mc_df, cov_df)} :
                parsed' = [edges |-> edges_to_remove,
                           sub_trees |-> connected_component_subgraphs(g, edges_to_remove),
                           a |-> res.a, b |-> res.b,
                           given |-> [tree_g |-> g, mc_df |-> mc_df, cov_df |-> cov_df]]
    /\ pc' = "parsed"
    /\ UNCHANGED <<inputs, chunk_start, futures, pool_broken, yielded, results_dict,
                   total_records, returned, search>>

\* cut_by_highest_betweenness_centrality(tree_g): the edge is removed from the
\* copy _g
CutTree ==
    /\ pc = "parse"
    /\ \E g \in {tree_g} : \E cut \in {cut_by_highest_betweenness_centrality(g, tie)} :
          parsed' = [edges |-> {cut.removed_edge},
                     sub_trees |-> <<cut.left_tree, cut.right_tree>>,
                     a |-> <<>>, b |-> <<>>,
                     given |-> [tree_g |-> g, mc_df |-> mc_df, cov_df |-> cov_df]]
    /\ pc' = "cut"
    /\ UNCHANGED <<inputs, chunk_start, futures, pool_broken, yielded, results_dict,
                   total_records, returned, search>>

NextParse == ParseOne \/ CutTree

SpecParse == InitParse /\ [][NextParse]_vars

(***************************************************************************)
(* Properties of dmr_parsimony_fit (specification Spec).                   *)
(***************************************************************************)
\* the one-region tables of record r
RowTable(df, r) == [index |-> <<r>>, columns |-> df.columns, at |-> (r :> df.at[r])]

\* the log-likelihood of record r of the region table under a pattern
RegionLikelihood(pattern, r) ==
    Only({PatternLikelihood(a.g, pattern, a.mc, a.cov, a.p)[r] :
          a \in {[g |-> tree_g, mc |-> RowTable(mc_df, r), cov |-> RowTable(cov_df, r),
                  p |-> p_mutation]}})

\* A number i is the value of a score s (the logarithm of a positive rational
\* q) only when i = 0 and q = 1: e^i is irrational for every integer i # 0.
NumberIsScore(i, s) == i = 0 /\ s = ZeroScore

\* C1: when the call has returned, the second returned value of every region
\* is the log-likelihood of the pattern returned for the region, the maximum
\* of the region's retained likelihoods.
BestLikelihoodIsLikelihood ==
    pc = "done" =>
        \A t \in {total_records} : \A r \in Range(returned.index) :
            NumberIsScore(returned.best_likelihood[r],
                          MaxScore(Range(t.likelihoods[r]), t.likelihoods[r][1]))

\* C2: when the call has returned, the pattern returned for a region is a
\* candidate (the empty pattern or a retained one) and no candidate, the empty
\* pattern included, has a higher likelihood.
FinalAnswerIsBestCandidate ==
    pc = "done" =>
        \A t \in {total_records} : \A best \in {returned.best_choice} :
            \A r \in Range(returned.index) :
                /\ best[r] \in {{}} \cup Range(t.mutation[r])
                /\ \A s \in {RegionLikelihood(best[r], r)} :
                      \A P \in {{}} \cup Range(t.mutation[r]) :
                         ScoreLeq(RegionLikelihood(P, r), s)

\* C3: when the call has returned, the output holds every input region once,
\* in the row order of the input table, whatever the order of completion.
OutputInInputOrder ==
    pc = "done" => returned.index = mc_df.index

\* The order of the output does not depend on the order of completion: the
\* regions of the output are those the workers returned, by ascending offset.
OutputInChunkOrder ==
    pc = "done" =>
        \A i, j \in 1..Len(returned.index) :
            i < j => IndexOf(mc_df.index, returned.index[i])
                        < IndexOf(mc_df.index, returned.index[j])

\* C5: with max_mutation = 0 and a region table that is not empty, the call
\* fails only when a worker process dies, and what it returns is the empty
\* pattern for every input region.
ZeroBudgetReturnsEmptyPatterns ==
    (max_mutation = 0 /\ n_records > 0) =>
        /\ pc = "raised" => pool_broken
        /\ pc = "done" =>
              /\ returned.index = mc_df.index
              /\ \A r \in Range(returned.index) : returned.best_choice[r] = {}

\* the futures whose task raised or was lost with its process
Failed == {f \in DOMAIN futures : futures[f].state = "done" /\ ~futures[f].ok}

\* C8: the results are read only after every submitted task has ended; once a
\* task has failed nothing is returned, and when every future has been read
\* none has failed; no task runs twice and no chunk is submitted twice.
WaitsAndFailsWhole ==
    /\ pc \in {"collect", "done"} => \A f \in DOMAIN futures : futures[f].state = "done"
    /\ Failed # {} => pc # "done" /\ returned = NoResult /\ total_records = NoRecords
    /\ (pc = "collect" /\ Len(yielded) = Len(futures)) => Failed = {}
    /\ \A f \in DOMAIN futures : futures[f].runs <= 1
    /\ \A f, h \in DOMAIN futures : futures[f].task = futures[h].task => f = h

\* a chunk succeeded, another failed, its failure was read and the call raised
\* without a result
FailedChunkFailsCall ==
    /\ pc = "raised"
    /\ \E f \in Failed : f \in Range(yielded) /\ futures[f].runs = 1
    /\ \E f \in DOMAIN futures : futures[f].ok /\ f \in Range(yielded)
    /\ returned = NoResult

(***************************************************************************)
(* Properties of _max_likelihood_tree_worker (specification SpecSearch).   *)
(***************************************************************************)
\* the results the calls have returned so far: those held by a caller and the
\* one of the outermost call
ReturnedResults ==
    {stack[i].left : i \in {j \in DOMAIN stack : stack[j].at \notin {"start", "left"}}}
    \cup {stack[i].right : i \in {j \in DOMAIN stack : stack[j].at = "combine"}}
    \cup (IF pc = "returned" THEN {ret} ELSE {})

\* C4: no pattern returned by a call, at any depth, has more than
\* max_mutation edges.
PatternsWithinBudget ==
    \A res \in ReturnedResults : \A r \in Range(res.index) :
        \A i \in DOMAIN res.patterns[r] : Cardinality(res.patterns[r][i]) <= max_mutation

\* the combine step of the outermost call has returned a pattern that uses
\* the whole budget, with edges of both parts
BudgetUsedByCombine ==
    /\ pc = "returned"
    /\ Cardinality(tree_g.edges) > sub_tree_cutoff
    /\ max_mutation >= 2
    /\ \E r \in Range(ret.index) : \E i \in DOMAIN ret.patterns[r] :
          /\ Cardinality(ret.patterns[r][i]) = max_mutation
          /\ \E cut \in {cut_by_highest_betweenness_centrality(tree_g, tie)} :
                /\ ret.patterns[r][i] \cap cut.left_tree.edges # {}
                /\ ret.patterns[r][i] \cap cut.right_tree.edges # {}

\* C7: for a tree of sub_tree_cutoff + 1 edges (one split, both parts searched
\* exhaustively) the call returns what the exhaustive search of the whole
\* tree returns: the same mutation counts, patterns and likelihoods.  (Stated
\* for the calls that return, with max_mutation >= 1.)
ExhaustiveEqualsOneLevelSplit ==
    (pc = "returned" /\ Cardinality(tree_g.edges) = sub_tree_cutoff + 1
                     /\ max_mutation >= 1) =>
        /\ \A a \in {[g |-> tree_g, mc |-> mc_df, cov |-> cov_df]} :
              \A ex \in {ExhaustiveSearch(a.g, a.mc, a.cov, Budget(a.g, max_mutation),
                                          p_mutation, tie)} :
                 /\ ret.index = ex.index
                 /\ ret.patterns = ex.patterns
                 /\ ret.likelihoods = ex.likelihoods

\* C9: a call on a tree of more than sub_tree_cutoff edges does not raise,
\* every call it makes gets a tree of fewer edges than its caller's, and
\* every result returned to a caller holds every region of the caller.
\* (Stated for max_mutation >= 1.)
RecursionReturnsEveryRegion ==
    (Cardinality(tree_g.edges) > sub_tree_cutoff /\ max_mutation >= 1) =>
        /\ pc # "raised"
        /\ \A i \in 2..Len(stack) :
              Cardinality(stack[i].tree_g.edges) < Cardinality(stack[i - 1].tree_g.edges)
        /\ \A res \in ReturnedResults : res.index = mc_df.index

(***************************************************************************)
(* Properties of parse_one_pattern and of the cut (specification           *)
(* SpecParse).                                                             *)
(***************************************************************************)
Leaves == 0..Len(linkage)
LeavesOf(sub_tree) == Range(sub_tree.nodes) \cap Leaves

\* C6: removing k edges of the tree leaves k + 1 connected components whose
\* leaf sets are pairwise disjoint and cover the leaves; the partitioner
\* removes one edge and returns the two components.
RemovedEdgesPartitionLeaves ==
    pc \in {"parsed", "cut"} =>
        \A p \in {parsed} :
            /\ p.edges \subseteq tree_g.edges
            /\ Len(p.sub_trees) = Cardinality(p.edges) + 1
            /\ \A i, j \in DOMAIN p.sub_trees :
                  i # j => Range(p.sub_trees[i].nodes) \cap Range(p.sub_trees[j].nodes) = {}
            /\ UNION {LeavesOf(p.sub_trees[i]) : i \in DOMAIN p.sub_trees} = Leaves
            /\ \A i \in DOMAIN p.sub_trees :
                  \A u, v \in Range(p.sub_trees[i].nodes) :
                      v \in Reach(tree_g.edges \ p.edges, {u})
            /\ pc = "cut" => Len(p.sub_trees) = 2

\* two or more edges are removed and a component without a leaf results
LeaflessComponent ==
    /\ pc = "parsed"
    /\ Cardinality(parsed.edges) >= 2
    /\ \E i \in DOMAIN parsed.sub_trees : LeavesOf(parsed.sub_trees[i]) = {}
    /\ \E i \in DOMAIN parsed.sub_trees : Cardinality(LeavesOf(parsed.sub_trees[i])) >= 2

\* C10: every leaf column of the returned tables holds the sums of the input's
\* methylated and unmethylated counts over the leaves of the column's
\* component, and the arguments are as they were given.
PooledFromOriginalValues ==
    pc = "parsed" =>
        \A p \in {parsed} :
            /\ \A r \in Range(mc_df.index) : \A c \in mc_df.columns :
                  \A group \in {Reach(tree_g.edges \ p.edges, {c}) \cap mc_df.columns} :
                     /\ p.a[r][c] = SumOver(group, mc_df.at[r])
                     /\ p.b[r][c] = SumOver(group, [x \in group |->
                                                       cov_df.at[r][x] - mc_df.at[r][x]])
            /\ p.given = [tree_g |-> tree_g, mc_df |-> mc_df, cov_df |-> cov_df]

\* several groups of leaves are pooled, one after the other, a component
\* without a leaf is skipped, and pooling changes a cell
SeveralGroupsPooled ==
    /\ pc = "parsed"
    /\ Cardinality({i \in DOMAIN parsed.sub_trees :
                       Cardinality(LeavesOf(parsed.sub_trees[i])) >= 2}) >= 2
    /\ \E i \in DOMAIN parsed.sub_trees : LeavesOf(parsed.sub_trees[i]) = {}
    /\ \E r \in Range(mc_df.index) : \E c \in mc_df.columns :
          parsed.a[r][c] # mc_df.at[r][c]
    /\ \E r \in Range(mc_df.index) : \E c \in mc_df.columns :
          parsed.b[r][c] # cov_df.at[r][c] - mc_df.at[r][c]

====
